---- MODULE Spec2Model ----
(***************************************************************************)
(* Model of the App Store status tracker: AppStatusService                 *)
(* (services/app-status-service.ts) and its driver main() (src/index.ts).  *)
(*                                                                         *)
(* JavaScript values are modelled as follows.                              *)
(*   - a string is a TLA+ string; the value undefined is Undefined;        *)
(*   - an object is the sequence of its <<key, value>> pairs in insertion  *)
(*     order (JSON.stringify writes the keys in that order);               *)
(*   - a missing object-valued property reads as Missing;                  *)
(*   - the text of status.json is a sequence of <<appId, tokens>> entries, *)
(*     tokens being the alternating keys and values of one record, with a  *)
(*     flag telling whether the text parses at all.                        *)
(***************************************************************************)
EXTENDS Naturals, Sequences, FiniteSets, TLC

\* ------------------------------------------------------------------ bounds
\* Number of distinct version strings the remote API may report.
NumVersions == 2
\* Largest number of appStoreVersions items in one response.
MaxItems == 2

\* ------------------------------------------------------------ JS values
Undefined == "undefined"
Missing == << >>
EmptyObject == << >>

Keys(o) == { o[i][1] : i \in DOMAIN o }
Has(o, k) == k \in Keys(o)
\* o[k] for a string-valued property
Get(o, k) == IF Has(o, k) THEN o[CHOOSE i \in DOMAIN o : o[i][1] = k][2] ELSE Undefined
\* o[k] for an object-valued property
GetObj(o, k) == IF Has(o, k) THEN o[CHOOSE i \in DOMAIN o : o[i][1] = k][2] ELSE Missing
\* o[k] = v : an existing key keeps its place, a new key is appended
Set(o, k, v) ==
  IF Has(o, k)
  THEN [i \in DOMAIN o |-> IF o[i][1] = k THEN <<k, v>> ELSE o[i]]
  ELSE Append(o, <<k, v>>)
Truthy(obj) == obj # Missing

\* ------------------------------------------------------------ configuration
\* apps.json as read by main(): two monitored applications.
Apps ==
  << [name |-> "AppOne", appId |-> "1001", webhookUrl |-> "hook1", icon |-> "icon1"],
     [name |-> "AppTwo", appId |-> "1002", webhookUrl |-> "hook2", icon |-> "icon2"] >>
AppIds == { Apps[i].appId : i \in DOMAIN Apps }

\* ------------------------------------------------------------ AppStatus
\* The object literal of checkAppStatus: all four keys, createdDate maybe undefined.
AppStatus(state, createdDate, versionString, releaseType) ==
  << <<"state", state>>, <<"createdDate", createdDate>>,
     <<"versionString", versionString>>, <<"releaseType", releaseType>> >>

\* ------------------------------------------------------------ JSON
IsDefined(kv) == kv[2] # Undefined
\* JSON.stringify of one AppStatus: keys whose value is undefined are omitted.
StringifyStatus(o) ==
  LET d == SelectSeq(o, IsDefined)
  IN  [i \in 1..(2 * Len(d)) |-> IF i % 2 = 1 THEN d[(i + 1) \div 2][1] ELSE d[i \div 2][2]]
\* JSON.parse of one record's tokens.
ParseStatus(t) == [i \in 1..(Len(t) \div 2) |-> <<t[2 * i - 1], t[2 * i]>>]
\* JSON.stringify(currentStatuses, null, 2)
JSONstringify(statuses) ==
  [valid |-> TRUE,
   text |-> [i \in DOMAIN statuses |-> <<statuses[i][1], StringifyStatus(statuses[i][2])>>]]
\* JSON.parse(data): throws a SyntaxError on text that is no JSON.
JSONparse(f) ==
  IF f.valid
  THEN [threw |-> FALSE,
        value |-> [i \in DOMAIN f.text |-> <<f.text[i][1], ParseStatus(f.text[i][2])>>]]
  ELSE [threw |-> TRUE, value |-> EmptyObject]

CorruptFile == [valid |-> FALSE, text |-> << >>]

\* ------------------------------------------------------------ status store
loadPreviousStatuses(f) ==
  LET r == JSONparse(f)
  IN  IF r.threw THEN EmptyObject ELSE r.value

\* mutant: a load that failed makes the save give up
savePreviousStatus_SkipOnCorrupt(f, appId, status) ==
  IF f.valid THEN JSONstringify(Set(loadPreviousStatuses(f), appId, status)) ELSE f
\* mutant: the mapping is rebuilt from the saved entry alone
savePreviousStatus_OnlyEntry(f, appId, status) ==
  JSONstringify(Set(EmptyObject, appId, status))
\* The content of the file after savePreviousStatus(appId, status).
savePreviousStatus(f, appId, status) ==
  JSONstringify(Set(loadPreviousStatuses(f), appId, status))

\* mutant: every persisted field is compared
hasStatusChanged_AllFields(f, appId, currentStatus) ==
  LET previousStatus == GetObj(loadPreviousStatuses(f), appId)
  IN  IF ~Truthy(previousStatus) THEN TRUE
      ELSE \E k \in {"state", "versionString", "createdDate", "releaseType"} :
             Get(previousStatus, k) # Get(currentStatus, k)
hasStatusChanged(f, appId, currentStatus) ==
  LET previousStatus == GetObj(loadPreviousStatuses(f), appId)
  IN  IF ~Truthy(previousStatus) THEN TRUE
      ELSE \/ Get(previousStatus, "state") # Get(currentStatus, "state")
           \/ Get(previousStatus, "versionString") # Get(currentStatus, "versionString")

\* ------------------------------------------------------------ lookups
getStateEmoji(state) ==
  CASE state = "ACCEPTED" -> "check-mark"
    [] state = "DEVELOPER_REJECTED" -> "no-entry"
    [] state = "IN_REVIEW" -> "magnifier"
    [] state = "INVALID_BINARY" -> "warning"
    [] state = "METADATA_REJECTED" -> "memo-cross"
    [] state = "PENDING_APPLE_RELEASE" -> "hourglass"
    [] state = "PENDING_DEVELOPER_RELEASE" -> "technologist"
    [] state = "PREPARE_FOR_SUBMISSION" -> "package"
    [] state = "PROCESSING_FOR_DISTRIBUTION" -> "gear"
    [] state = "READY_FOR_DISTRIBUTION" -> "party"
    [] state = "READY_FOR_REVIEW" -> "outbox"
    [] state = "REJECTED" -> "cross"
    [] state = "REPLACED_WITH_NEW_VERSION" -> "arrows"
    [] state = "WAITING_FOR_EXPORT_COMPLIANCE" -> "clipboard"
    [] state = "WAITING_FOR_REVIEW" -> "hourglass"
    [] OTHER -> "question-mark"

\* mutant: the switch has no default branch
getStateMessage_NoDefault(state) ==
  CASE state = "ACCEPTED" -> "review approved"
    [] state = "DEVELOPER_REJECTED" -> "review cancelled by developer"
    [] state = "IN_REVIEW" -> "in review"
    [] state = "INVALID_BINARY" -> "invalid binary"
    [] state = "METADATA_REJECTED" -> "metadata rejected"
    [] state = "PENDING_APPLE_RELEASE" -> "pending Apple release"
    [] state = "PENDING_DEVELOPER_RELEASE" -> "approved, pending release"
    [] state = "PREPARE_FOR_SUBMISSION" -> "preparing for submission"
    [] state = "PROCESSING_FOR_DISTRIBUTION" -> "processing for distribution"
    [] state = "READY_FOR_DISTRIBUTION" -> "distributed"
    [] state = "READY_FOR_REVIEW" -> "ready for review"
    [] state = "REJECTED" -> "review rejected"
    [] state = "REPLACED_WITH_NEW_VERSION" -> "replaced with new version"
    [] state = "WAITING_FOR_EXPORT_COMPLIANCE" -> "waiting for export compliance"
    [] state = "WAITING_FOR_REVIEW" -> "waiting for review"
    [] OTHER -> Undefined
getStateMessage(state) ==
  CASE state = "ACCEPTED" -> "review approved"
    [] state = "DEVELOPER_REJECTED" -> "review cancelled by developer"
    [] state = "IN_REVIEW" -> "in review"
    [] state = "INVALID_BINARY" -> "invalid binary"
    [] state = "METADATA_REJECTED" -> "metadata rejected"
    [] state = "PENDING_APPLE_RELEASE" -> "pending Apple release"
    [] state = "PENDING_DEVELOPER_RELEASE" -> "approved, pending release"
    [] state = "PREPARE_FOR_SUBMISSION" -> "preparing for submission"
    [] state = "PROCESSING_FOR_DISTRIBUTION" -> "processing for distribution"
    [] state = "READY_FOR_DISTRIBUTION" -> "distributed"
    [] state = "READY_FOR_REVIEW" -> "ready for review"
    [] state = "REJECTED" -> "review rejected"
    [] state = "REPLACED_WITH_NEW_VERSION" -> "replaced with new version"
    [] state = "WAITING_FOR_EXPORT_COMPLIANCE" -> "waiting for export compliance"
    [] state = "WAITING_FOR_REVIEW" -> "waiting for review"
    [] OTHER -> "unknown state"

getStateColor(state) ==
  CASE state \in {"ACCEPTED", "READY_FOR_DISTRIBUTION"} -> 3581519
    [] state \in {"DEVELOPER_REJECTED", "REJECTED", "INVALID_BINARY", "METADATA_REJECTED"}
         -> 14431557
    [] state \in {"IN_REVIEW", "WAITING_FOR_REVIEW", "WAITING_FOR_EXPORT_COMPLIANCE"}
         -> 16761095
    [] state \in {"PENDING_APPLE_RELEASE", "PENDING_DEVELOPER_RELEASE",
                  "PROCESSING_FOR_DISTRIBUTION"} -> 35020
    [] state \in {"PREPARE_FOR_SUBMISSION", "READY_FOR_REVIEW", "REPLACED_WITH_NEW_VERSION"}
         -> 7291585
    [] OTHER -> 9807270

getReleaseTypeMessage(releaseType) ==
  CASE releaseType = "MANUAL" -> "manual release"
    [] releaseType = "AFTER_APPROVAL" -> "automatic release after approval"
    [] releaseType = "SCHEDULED" -> "scheduled release"
    [] OTHER -> releaseType \o " release"

\* ------------------------------------------------------------ composition
NoDateLabel == "none"
\* dayjs(createdDate).format("YYYY년 MM월 DD일 HH:mm")
dayjsFormat(createdDate) == "formatted " \o createdDate
submittedDate(currentStatus) ==
  IF Get(currentStatus, "createdDate") \notin {Undefined, ""}
  THEN dayjsFormat(Get(currentStatus, "createdDate"))
  ELSE NoDateLabel

versionChanged(previousStatus, currentStatus) ==
  /\ Truthy(previousStatus)
  /\ Get(previousStatus, "versionString") # Get(currentStatus, "versionString")
stateChanged(previousStatus, currentStatus) ==
  \/ ~Truthy(previousStatus)
  \/ Get(previousStatus, "state") # Get(currentStatus, "state")

TitleBoth == " version and state changed!"
TitleVersion == " version changed!"
TitleState == " state changed!"
\* mutant: the two single-change titles are swapped
titleText_Swapped(app, previousStatus, currentStatus) ==
  IF versionChanged(previousStatus, currentStatus) /\ stateChanged(previousStatus, currentStatus)
  THEN app.name \o TitleBoth
  ELSE IF versionChanged(previousStatus, currentStatus)
       THEN app.name \o TitleState
       ELSE app.name \o TitleVersion
titleText(app, previousStatus, currentStatus) ==
  IF versionChanged(previousStatus, currentStatus) /\ stateChanged(previousStatus, currentStatus)
  THEN app.name \o TitleBoth
  ELSE IF versionChanged(previousStatus, currentStatus)
       THEN app.name \o TitleVersion
       ELSE app.name \o TitleState

BuildRelevantStates ==
  {"READY_FOR_DISTRIBUTION", "PENDING_DEVELOPER_RELEASE", "WAITING_FOR_REVIEW", "IN_REVIEW"}
\* the local versionString of checkAppStatus: the displayed current version
displayVersion(currentStatus, buildNumber) ==
  IF Get(currentStatus, "state") \in BuildRelevantStates
  THEN Get(currentStatus, "versionString") \o " (" \o buildNumber \o ")"
  ELSE Get(currentStatus, "versionString")

Field(title, value) == [title |-> title, value |-> value, short |-> TRUE]
\* mutant: the previous version is shown whenever a prior record exists
fields_PreviousWheneverPrior(currentStatus, buildNumber, previousStatus) ==
  << Field("current state",
           getStateEmoji(Get(currentStatus, "state")) \o " "
             \o getStateMessage(Get(currentStatus, "state"))),
     Field("current version", displayVersion(currentStatus, buildNumber)),
     Field("release type", getReleaseTypeMessage(Get(currentStatus, "releaseType"))) >>
  \o IF Truthy(previousStatus)
     THEN << Field("previous version", Get(previousStatus, "versionString")),
             Field("submitted at", submittedDate(currentStatus)) >>
     ELSE << Field("submitted at", submittedDate(currentStatus)) >>
fields(currentStatus, buildNumber, previousStatus) ==
  << Field("current state",
           getStateEmoji(Get(currentStatus, "state")) \o " "
             \o getStateMessage(Get(currentStatus, "state"))),
     Field("current version", displayVersion(currentStatus, buildNumber)),
     Field("release type", getReleaseTypeMessage(Get(currentStatus, "releaseType"))) >>
  \o IF Truthy(previousStatus) /\ versionChanged(previousStatus, currentStatus)
     THEN << Field("previous version", Get(previousStatus, "versionString")),
             Field("submitted at", submittedDate(currentStatus)) >>
     ELSE << Field("submitted at", submittedDate(currentStatus)) >>

webhookPayload(app, currentStatus, buildNumber, previousStatus) ==
  [title |-> titleText(app, previousStatus, currentStatus),
   color |-> getStateColor(Get(currentStatus, "state")),
   author |-> [name |-> app.name, icon_url |-> app.icon],
   url |-> "https://appstoreconnect.apple.com/apps/" \o app.appId \o "/appstore",
   fields |-> LET fs == fields(currentStatus, buildNumber, previousStatus)
              IN  [i \in DOMAIN fs |->
                     [name |-> fs[i].title, value |-> fs[i].value, inline |-> fs[i].short]]]
NoPayload == [title |-> "", color |-> 0, author |-> [name |-> "", icon_url |-> ""],
              url |-> "", fields |-> << >>]

\* ------------------------------------------------------------ response
\* One element of response.data.data; buildId is relationships.build.data.id.
VersionItem(platform, state, createdDate, versionString, releaseType, buildId) ==
  [platform |-> platform, appVersionState |-> state, createdDate |-> createdDate,
   versionString |-> versionString, releaseType |-> releaseType, buildId |-> buildId]
isIOS(item) == item.platform = "IOS"
filterIOS(data) == SelectSeq(data, isIOS)
\* response.data.included.find(type = "builds" and id = buildId)?.attributes?.version
buildNumberOf(latestVersion, included) ==
  IF latestVersion.buildId # Undefined /\ included.present
  THEN LET hits == { i \in DOMAIN included.items :
                       /\ included.items[i].type = "builds"
                       /\ included.items[i].id = latestVersion.buildId }
       IN  IF hits = {} THEN Undefined
           ELSE included.items[CHOOSE i \in hits : \A j \in hits : i <= j].version
  ELSE Undefined
\* mutant: the linked build is kept in the record
currentStatusOf_WithBuild(latestVersion) ==
  Append(AppStatus(latestVersion.appVersionState, latestVersion.createdDate,
                   latestVersion.versionString, latestVersion.releaseType),
         <<"buildNumber", latestVersion.buildId>>)
\* const currentStatus: AppStatus = { state, createdDate, versionString, releaseType }
currentStatusOf(latestVersion) ==
  AppStatus(latestVersion.appVersionState, latestVersion.createdDate,
            latestVersion.versionString, latestVersion.releaseType)

\* ------------------------------------------------------------ environment
\* What the App Store Connect API may answer in this model.
VersionPool == <<"1.0", "1.1", "1.2", "2.0">>
Versions == { VersionPool[i] : i \in 1..NumVersions }
States == {"IN_REVIEW", "REJECTED"}
\* createdDate, releaseType and the build linkage vary together here; IterSpec
\* below varies every field on its own.
Extras ==
  { [createdDate |-> Undefined, releaseType |-> "MANUAL", buildId |-> Undefined],
    [createdDate |-> "2024-05-01T09:00:00Z", releaseType |-> "AFTER_APPROVAL",
     buildId |-> "b1"] }
IosItems ==
  { VersionItem("IOS", st, x.createdDate, v, x.releaseType, x.buildId) :
      st \in States, v \in Versions, x \in Extras }
MacItem == VersionItem("MAC_OS", "READY_FOR_DISTRIBUTION", Undefined, "9.9", "MANUAL", Undefined)
\* The version already on sale, listed after the one in progress.
OlderIosItem == VersionItem("IOS", "READY_FOR_DISTRIBUTION", Undefined, "0.9", "MANUAL", Undefined)
MacRun(k) == [i \in 1..k |-> MacItem]
\* response.data.data: macOS items, then the newest iOS item, then older items;
\* or macOS items only; or nothing.
DataLists ==
  { MacRun(n) : n \in 0..MaxItems }
  \cup UNION { UNION { { MacRun(k) \o <<x>> \o t : x \in IosItems,
                                                   t \in [1..m -> {MacItem, OlderIosItem}] } :
                       m \in 0..(MaxItems - 1 - k) } :
               k \in 0..(MaxItems - 1) }
Included ==
  { [present |-> FALSE, items |-> << >>],
    [present |-> TRUE, items |-> << >>],
    [present |-> TRUE, items |-> << [type |-> "builds", id |-> "b1", version |-> "45"] >>] }
\* The included list that goes with a data list: builds are included when linked.
includedFor(data) ==
  IF \E i \in DOMAIN data : data[i].buildId # Undefined
  THEN [present |-> TRUE, items |-> << [type |-> "builds", id |-> "b1", version |-> "45"] >>]
  ELSE [present |-> FALSE, items |-> << >>]
Responses == { [data |-> d, included |-> includedFor(d)] : d \in DataLists }
\* Status codes of a failed GET; 0 stands for an error without a response.
ErrorStatuses == {0, 401, 404, 500}

\* A record status.json may hold from an earlier run.
EarlierStatus == AppStatus("IN_REVIEW", "2024-05-01T09:00:00Z", "1.0", "AFTER_APPROVAL")
\* status.json when the service has been constructed: "{}" written by
\* initializeStatusFile, what earlier runs saved, or content that does not parse.
InitialFiles ==
  { JSONstringify(EmptyObject), CorruptFile,
    JSONstringify(<< <<"1001", EarlierStatus>> >>) }

\* ------------------------------------------------------------ state
NumPasses == 2

VARIABLES
  file,            \* content of status.json
  before,          \* history: content of status.json when the current iteration began
  pass,            \* which call of checkAppStatus main() is in
  idx,             \* position of the for loop in this.apps
  pc,              \* "token", "fetch", "post", "iterEnd", "done", "exit1"
  currentStatus,   \* the AppStatus built from the response, Missing before
  buildNumber,
  previousStatus,  \* loadPreviousStatuses()[app.appId] read when composing
  changed,         \* result of hasStatusChanged in this iteration
  payload,         \* webhookPayload of this iteration
  outcome,         \* how this iteration ended, "none" while it runs
  hist,            \* per pass and application: how its iteration ended and what it fetched
  posts,           \* every axios.post issued so far, in order
  writes,          \* every fs.writeFileSync issued so far, in order
  mainError,       \* which catch of main() ran: "none", "check", "init"
  instances,       \* overlapping runs of the job: where each is and what it holds
  saved            \* history: per application the record last written by such a run

vars == <<file, before, pass, idx, pc, currentStatus, buildNumber, previousStatus, changed,
          payload, outcome, hist, posts, writes, mainError, instances, saved>>
\* The variables of overlapping runs, which a single run leaves alone.
concVars == <<instances, saved>>

\* mutant: the loop walks the configuration from its end
app_Reversed == Apps[Len(Apps) + 1 - idx]
\* const app of this.apps
app == Apps[idx]
NoHist == [result |-> "none", priorPresent |-> FALSE, state |-> Undefined,
           versionString |-> Undefined]
\* What hist keeps of an iteration that ended with `kind`.
ResultOf(kind) ==
  IF kind \in {"tokenError", "fetchError", "noVersions", "noIOS"} THEN "error" ELSE kind
priorPresent == Has(loadPreviousStatuses(before), app.appId)

\* The service has been constructed and main() is about to call checkAppStatus;
\* main() has found the three credentials set, so the guard that opens
\* checkAppStatus passes in both calls.
Init ==
  /\ file \in InitialFiles
  /\ before = file
  /\ pass = 1
  /\ idx = 1
  /\ pc = "token"
  /\ currentStatus = Missing
  /\ buildNumber = Undefined
  /\ previousStatus = Missing
  /\ changed = FALSE
  /\ payload = NoPayload
  /\ outcome = "none"
  /\ hist = [p \in 1..NumPasses |-> [i \in DOMAIN Apps |-> NoHist]]
  /\ posts = << >>
  /\ writes = << >>
  /\ mainError = "none"
  /\ instances = << >>
  /\ saved = EmptyObject

\* The iteration of the for loop ends with `kind`; `sent` is the list of POSTs by then.
EndIteration(kind, cur, sent) ==
  /\ outcome' = kind
  /\ posts' = sent
  /\ hist' = [hist EXCEPT ![pass][idx] =
                [result |-> ResultOf(kind), priorPresent |-> priorPresent,
                 state |-> Get(cur, "state"), versionString |-> Get(cur, "versionString")]]

\* mutant: no try/catch around the loop body, the error leaves checkAppStatus
Catch_Propagate(kind, cur, sent) ==
  /\ EndIteration(kind, cur, sent)
  /\ pc' = IF pass = 1 THEN "exit1" ELSE "done"
  /\ mainError' = IF pass = 1 THEN "init" ELSE "check"
  /\ UNCHANGED <<file, writes>>
\* mutant: the catch block posts the error message to the webhook
Catch_Notify(kind, cur, sent) ==
  /\ EndIteration(kind, cur, Append(sent, [pass |-> pass, idx |-> idx, ok |-> TRUE]))
  /\ pc' = "iterEnd"
  /\ UNCHANGED <<file, writes, mainError>>
\* mutant: the catch block saves what was fetched before the failure
Catch_Save(kind, cur, sent) ==
  /\ EndIteration(kind, cur, sent)
  /\ pc' = "iterEnd"
  /\ file' = IF cur = Missing THEN file ELSE savePreviousStatus(file, app.appId, cur)
  /\ writes' = IF cur = Missing THEN writes
               ELSE Append(writes, [pass |-> pass, idx |-> idx])
  /\ UNCHANGED mainError
\* The catch block of the loop body: the error is logged and the loop goes on.
Catch(kind, cur, sent) ==
  /\ EndIteration(kind, cur, sent)
  /\ pc' = "iterEnd"
  /\ UNCHANGED <<file, writes, mainError>>

\* mutant: the record is saved only when a change was notified
Persist_OnlyWhenChanged(kind, cur, sent) ==
  /\ file' = IF kind = "unchanged" THEN file ELSE savePreviousStatus(file, app.appId, cur)
  /\ writes' = IF kind = "unchanged" THEN writes
               ELSE Append(writes, [pass |-> pass, idx |-> idx])
  /\ EndIteration(kind, cur, sent)
  /\ pc' = "iterEnd"
  /\ UNCHANGED mainError
\* this.savePreviousStatus(app.appId, currentStatus) as the last statement of the try
Persist(kind, cur, sent) ==
  /\ file' = savePreviousStatus(file, app.appId, cur)
  /\ writes' = Append(writes, [pass |-> pass, idx |-> idx])
  /\ EndIteration(kind, cur, sent)
  /\ pc' = "iterEnd"
  /\ UNCHANGED mainError

\* await this.generateToken(): jwt.sign returns a token or throws
GenerateToken ==
  /\ pc = "token"
  /\ \E ok \in BOOLEAN :
       IF ok
       THEN /\ pc' = "fetch"
            /\ UNCHANGED <<file, writes, mainError, outcome, hist, posts>>
       ELSE Catch("tokenError", Missing, posts)
  /\ UNCHANGED <<before, pass, idx, currentStatus, buildNumber, previousStatus, changed,
                 payload>>
  /\ UNCHANGED concVars

\* await axios.get(...) rejects
FetchFails ==
  /\ pc = "fetch"
  /\ \E status \in ErrorStatuses : Catch("fetchError", Missing, posts)
  /\ UNCHANGED <<before, pass, idx, currentStatus, buildNumber, previousStatus, changed,
                 payload>>
  /\ UNCHANGED concVars

\* mutant: the record is saved as soon as the change is detected, before the POST
Compose_SaveFirst(cur, build) ==
  /\ previousStatus' = GetObj(loadPreviousStatuses(file), app.appId)
  /\ payload' = webhookPayload(app, cur, build,
       GetObj(loadPreviousStatuses(file), app.appId))
  /\ pc' = "post"
  /\ file' = savePreviousStatus(file, app.appId, cur)
  /\ writes' = Append(writes, [pass |-> pass, idx |-> idx])
  /\ UNCHANGED <<mainError, outcome, hist, posts>>
\* The body of `if (this.hasStatusChanged(...))` up to the await of axios.post.
Compose(cur, build) ==
  /\ previousStatus' = GetObj(loadPreviousStatuses(file), app.appId)
  /\ payload' = webhookPayload(app, cur, build,
       GetObj(loadPreviousStatuses(file), app.appId))
  /\ pc' = "post"
  /\ UNCHANGED <<file, writes, mainError, outcome, hist, posts>>

\* The rest of the try block once axios.get has resolved with `response`, up to
\* the next await or to the end of the block.
HandleResponse(response) ==
  LET data == response.data
      ios == filterIOS(data)
  IN  IF Len(data) = 0
      THEN /\ Catch("noVersions", Missing, posts)
           /\ UNCHANGED <<currentStatus, buildNumber, previousStatus, changed, payload>>
      ELSE IF Len(ios) = 0
      THEN /\ Catch("noIOS", Missing, posts)
           /\ UNCHANGED <<currentStatus, buildNumber, previousStatus, changed, payload>>
      ELSE LET latestVersion == ios[1]
               cur == currentStatusOf(latestVersion)
               build == buildNumberOf(latestVersion, response.included)
           IN  /\ currentStatus' = cur
               /\ buildNumber' = build
               /\ changed' = hasStatusChanged(file, app.appId, cur)
               /\ IF hasStatusChanged(file, app.appId, cur)
                  THEN Compose(cur, build)
                  ELSE /\ Persist("unchanged", cur, posts)
                       /\ UNCHANGED <<previousStatus, payload>>

\* await axios.get(...) resolves
FetchResponds ==
  /\ pc = "fetch"
  /\ \E response \in Responses : HandleResponse(response)
  /\ UNCHANGED <<before, pass, idx>>
  /\ UNCHANGED concVars

\* await axios.post(app.webhookUrl, webhookPayload) resolves or rejects
Post ==
  /\ pc = "post"
  /\ \E ok \in BOOLEAN :
       LET sent == Append(posts, [pass |-> pass, idx |-> idx, ok |-> ok])
       IN  IF ok
           THEN Persist("delivered", currentStatus, sent)
           ELSE Catch("deliveryError", currentStatus, sent)
  /\ UNCHANGED <<before, pass, idx, currentStatus, buildNumber, previousStatus, changed, payload>>
  /\ UNCHANGED concVars

ResetIteration ==
  /\ currentStatus' = Missing
  /\ buildNumber' = Undefined
  /\ previousStatus' = Missing
  /\ changed' = FALSE
  /\ payload' = NoPayload
  /\ outcome' = "none"
  /\ before' = file

\* mutant: the loop does not move on and handles the same application again
NextApp_Stuck ==
  /\ pc = "iterEnd"
  /\ idx < Len(Apps)
  /\ idx' = idx
  /\ pc' = "token"
  /\ ResetIteration
  /\ UNCHANGED <<file, pass, hist, posts, writes, mainError>>
  /\ UNCHANGED concVars
\* the for loop moves to the next application
NextApp ==
  /\ pc = "iterEnd"
  /\ idx < Len(Apps)
  /\ idx' = idx + 1
  /\ pc' = "token"
  /\ ResetIteration
  /\ UNCHANGED <<file, pass, hist, posts, writes, mainError>>
  /\ UNCHANGED concVars

\* checkAppStatus returns to main(), which calls it a second time and then ends
PassReturns ==
  /\ pc = "iterEnd"
  /\ idx = Len(Apps)
  /\ IF pass < NumPasses
     THEN /\ pass' = pass + 1
          /\ idx' = 1
          /\ pc' = "token"
     ELSE /\ pc' = "done"
          /\ UNCHANGED <<pass, idx>>
  /\ ResetIteration
  /\ UNCHANGED <<file, hist, posts, writes, mainError>>
  /\ UNCHANGED concVars

Next == GenerateToken \/ FetchFails \/ FetchResponds \/ Post \/ NextApp \/ PassReturns

Spec == Init /\ [][Next]_vars

\* ------------------------------------------------------------ one iteration
\* One iteration of the loop over every combination of a stored record and a
\* fetched one, each field varying on its own.
WideStates == {"IN_REVIEW", "REJECTED", "NOT_A_KNOWN_STATE"}
CreatedDates == {Undefined, "2024-05-01T09:00:00Z", "2024-06-01T09:00:00Z"}
ReleaseTypes == {"MANUAL", "AFTER_APPROVAL", "PHASED"}
WideStatuses ==
  { AppStatus(st, d, v, rt) : st \in WideStates, d \in CreatedDates, v \in Versions,
                             rt \in ReleaseTypes }
WideResponses ==
  { [data |-> << VersionItem("IOS", st, d, v, rt, b) >>, included |-> inc] :
      st \in WideStates, d \in CreatedDates, v \in Versions, rt \in ReleaseTypes,
      b \in {Undefined, "b1"}, inc \in Included }
WideFiles ==
  { JSONstringify(EmptyObject), CorruptFile }
  \cup { JSONstringify(<< <<"1001", r>> >>) : r \in WideStatuses }
  \cup { JSONstringify(<< <<"1002", EarlierStatus>>, <<"1001", r>> >>) : r \in WideStatuses }

IterInit ==
  /\ file \in WideFiles
  /\ before = file
  /\ pass = 1
  /\ idx = 1
  /\ pc = "fetch"
  /\ currentStatus = Missing
  /\ buildNumber = Undefined
  /\ previousStatus = Missing
  /\ changed = FALSE
  /\ payload = NoPayload
  /\ outcome = "none"
  /\ hist = [p \in 1..NumPasses |-> [i \in DOMAIN Apps |-> NoHist]]
  /\ posts = << >>
  /\ writes = << >>
  /\ mainError = "none"
  /\ instances = << >>
  /\ saved = EmptyObject

FetchWide ==
  /\ pc = "fetch"
  /\ \E response \in WideResponses : HandleResponse(response)
  /\ UNCHANGED <<before, pass, idx>>
  /\ UNCHANGED concVars

IterNext == FetchWide \/ Post

IterSpec == IterInit /\ [][IterNext]_vars

\* ------------------------------------------------------------ properties
StoredEntry(f, appId) == GetObj(loadPreviousStatuses(f), appId)
\* What reading back a saved record gives.
RoundTrip(status) == ParseStatus(StringifyStatus(status))
PostsOf(p, i) == Cardinality({ n \in DOMAIN posts : posts[n].pass = p /\ posts[n].idx = i })
WritesOf(p, i) == Cardinality({ n \in DOMAIN writes : writes[n].pass = p /\ writes[n].idx = i })
Fetched == currentStatus # Missing
\* The record fetched now has the state and version fetched in the first pass.
SameAsFirstPass ==
  /\ Fetched
  /\ Get(currentStatus, "state") = hist[1][idx].state
  /\ Get(currentStatus, "versionString") = hist[1][idx].versionString

\* C1: when the webhook POST fails after a detected change, the store holds the
\* newly fetched record at the end of that iteration, and a later pass that
\* fetches the same state and version for that application sends nothing.
C1_PersistAfterFailedDelivery ==
  /\ (pc = "iterEnd" /\ outcome = "deliveryError")
       => StoredEntry(file, app.appId) = RoundTrip(currentStatus)
  /\ (pass = 2 /\ hist[1][idx].result = "deliveryError" /\ SameAsFirstPass)
       => (pc # "post" /\ PostsOf(2, idx) = 0)

\* C2: an application absent from the store when its iteration starts and whose
\* fetch succeeds is detected as changed, gets exactly one delivery attempt in
\* that pass, and none in a later pass that fetches the same state and version.
C2_FirstSeenNotifiesOnce ==
  /\ (Fetched /\ ~priorPresent) => changed
  /\ (Fetched /\ ~priorPresent /\ pc = "iterEnd") => PostsOf(pass, idx) = 1
  /\ (pass = 2 /\ ~hist[1][idx].priorPresent
        /\ hist[1][idx].result \in {"delivered", "deliveryError"} /\ SameAsFirstPass)
       => (pc # "post" /\ PostsOf(2, idx) = 0)

\* C3: hasStatusChanged is true exactly when the store has no record for the
\* application, or the stored state differs, or the stored version differs; with
\* a stored record of the same state and version, no other difference makes the
\* iteration send a notification.
C3_ChangeIsStateOrVersion ==
  Fetched =>
    LET prev == StoredEntry(before, app.appId)
    IN  /\ changed = ( \/ ~Has(loadPreviousStatuses(before), app.appId)
                       \/ Get(prev, "state") # Get(currentStatus, "state")
                       \/ Get(prev, "versionString") # Get(currentStatus, "versionString") )
        /\ ~changed => (pc = "iterEnd" /\ outcome = "unchanged" /\ PostsOf(pass, idx) = 0)
\* C3 witness: an unchanged verdict although release type, creation date and
\* build number all differ from what was stored or is absent from it.
C3_Witness ==
  /\ pc = "iterEnd" /\ outcome = "unchanged" /\ PostsOf(pass, idx) = 0
  /\ Get(StoredEntry(before, app.appId), "releaseType") # Get(currentStatus, "releaseType")
  /\ Get(StoredEntry(before, app.appId), "createdDate") # Get(currentStatus, "createdDate")
  /\ buildNumber # Undefined

\* C4: once a record has been saved for an application, the detector called with
\* the same record answers unchanged; and in the second pass an application whose
\* first pass persisted and whose fetch gives the same state and version is not
\* detected as changed and gets no notification.
C4_DetectionIdempotent ==
  /\ (pc = "iterEnd" /\ outcome \in {"unchanged", "delivered"})
       => ~hasStatusChanged(file, app.appId, currentStatus)
  /\ (pass = 2 /\ hist[1][idx].result \in {"unchanged", "delivered"} /\ SameAsFirstPass)
       => (~changed /\ pc # "post" /\ PostsOf(2, idx) = 0)
\* C4 witness: the second pass ends unchanged for an application notified in the first.
C4_Witness ==
  /\ pass = 2 /\ pc = "iterEnd" /\ outcome = "unchanged"
  /\ hist[1][idx].result = "delivered" /\ SameAsFirstPass
  /\ Get(currentStatus, "createdDate") = Undefined

\* Iteration i of pass p is over.
IterationOver(p, i) ==
  \/ p < pass
  \/ pc = "done"
  \/ (p = pass /\ (i < idx \/ (i = idx /\ pc = "iterEnd")))
\* C5: no failure of an iteration leaves checkAppStatus: neither catch of main()
\* runs, and every application before the loop position has been processed in
\* every pass made so far.
C5_FailuresStayInIteration ==
  /\ mainError = "none"
  /\ pc # "exit1"
  /\ \A p \in 1..NumPasses : \A i \in DOMAIN Apps :
       IterationOver(p, i) => hist[p][i].result # "none"
\* C5 witness: the first application failed in both passes (once before the
\* fetch returned, once at delivery) and the second was still delivered to.
C5_Witness ==
  /\ pc = "done"
  /\ hist[1][1].result = "error" /\ hist[2][1].result = "deliveryError"
  /\ hist[1][2].result = "delivered" /\ hist[2][2].result = "unchanged"

FetchFailed == outcome \in {"fetchError", "noVersions", "noIOS"}
\* C6: an iteration whose fetch fails (transport error, empty version list, no
\* iOS record) writes nothing to the store and delivers nothing: status.json is
\* the same after it as before it.
C6_FailedFetchTouchesNothing ==
  (pc = "iterEnd" /\ FetchFailed) =>
    /\ file = before
    /\ StoredEntry(file, app.appId) = StoredEntry(before, app.appId)
    /\ WritesOf(pass, idx) = 0
    /\ PostsOf(pass, idx) = 0
\* C6 witness: the response held no iOS record while the store held an entry.
C6_Witness ==
  /\ pc = "iterEnd" /\ outcome = "noIOS"
  /\ Has(loadPreviousStatuses(file), app.appId)

KeyOrder(f) == [i \in DOMAIN f.text |-> f.text[i][1]]
\* C7: an iteration, however it ends, leaves the entry of every other
\* application as it was, and no key of the store is ever removed.
C7_OnlyOwnEntryChanges ==
  /\ \A id \in Keys(loadPreviousStatuses(before)) \cup AppIds :
       id # app.appId => StoredEntry(file, id) = StoredEntry(before, id)
  /\ Keys(loadPreviousStatuses(before)) \subseteq Keys(loadPreviousStatuses(file))
\* C7 witness: the second application's record was written while the store held
\* the first one's.
C7_Witness ==
  /\ pc = "iterEnd" /\ idx = 2 /\ file # before
  /\ Has(loadPreviousStatuses(before), Apps[1].appId)
  /\ ~Has(loadPreviousStatuses(before), Apps[2].appId)

\* C8: with unparseable content in status.json, loadPreviousStatuses gives the
\* empty mapping, the iteration goes on as for a first observation, and the
\* save that follows leaves parseable content holding the saved entry.
C8_CorruptFileRecovers ==
  ~before.valid =>
    /\ loadPreviousStatuses(before) = EmptyObject
    /\ Fetched => (changed /\ outcome \in {"none", "delivered", "deliveryError"})
    /\ (pc = "iterEnd" /\ outcome = "delivered") =>
         /\ file.valid
         /\ WritesOf(pass, idx) = 1
         /\ Has(loadPreviousStatuses(file), app.appId)
         /\ StoredEntry(file, app.appId) = RoundTrip(currentStatus)
\* C8 witness: a record was saved over unparseable content.
C8_Witness ==
  /\ ~before.valid /\ pc = "iterEnd" /\ outcome = "delivered" /\ file.valid

\* C9 as stated: when detection reports no change, status.json has the same
\* content after the iteration as before it.
C9_NoChangeLeavesStoreEqual ==
  (pc = "iterEnd" /\ outcome = "unchanged") => file = before
\* C9 amended: when detection reports no change, the entry is overwritten with
\* the fetched record: it keeps its place, its state and its version, every
\* other entry is untouched, and the content is the same as before exactly when
\* the fetched record equals the stored one in createdDate and releaseType too.
C9_NoChangeRefreshesEntry ==
  (pc = "iterEnd" /\ outcome = "unchanged") =>
    LET old == StoredEntry(before, app.appId)
        new == StoredEntry(file, app.appId)
    IN  /\ before.valid /\ file.valid
        /\ KeyOrder(file) = KeyOrder(before)
        /\ \A id \in Keys(loadPreviousStatuses(before)) :
             id # app.appId => StoredEntry(file, id) = StoredEntry(before, id)
        /\ new = RoundTrip(currentStatus)
        /\ Get(new, "state") = Get(old, "state")
        /\ Get(new, "versionString") = Get(old, "versionString")
        /\ (file = before) <=> (RoundTrip(currentStatus) = old)
\* C9 witness: an unchanged verdict after which the stored release type differs.
C9_Witness ==
  /\ pc = "iterEnd" /\ outcome = "unchanged" /\ file # before
  /\ Get(StoredEntry(file, app.appId), "releaseType")
       # Get(StoredEntry(before, app.appId), "releaseType")

\* C10: the title is the both-changed form when a prior record exists and both
\* version and state differ, the version-only form when a prior record exists and
\* only the version differs, the state-only form otherwise; with a prior record
\* present one of the two flags is true, so neither flag is true only when no
\* prior record exists.
C10_TitleFollowsClassification ==
  (Fetched /\ changed) =>
    LET prev == StoredEntry(before, app.appId)
        had == Has(loadPreviousStatuses(before), app.appId)
        vDiff == Get(prev, "versionString") # Get(currentStatus, "versionString")
        sDiff == Get(prev, "state") # Get(currentStatus, "state")
    IN  /\ payload.title = (IF had /\ vDiff /\ sDiff THEN app.name \o TitleBoth
                            ELSE IF had /\ vDiff THEN app.name \o TitleVersion
                            ELSE app.name \o TitleState)
        /\ had => (vDiff \/ sDiff)
        /\ had => ( \/ versionChanged(previousStatus, currentStatus)
                    \/ stateChanged(previousStatus, currentStatus) )
        /\ ( /\ ~versionChanged(previousStatus, currentStatus)
             /\ ~stateChanged(previousStatus, currentStatus) ) => ~had
\* C10 witness: a version-only title is about to be posted.
C10_Witness ==
  /\ pc = "post" /\ payload.title = app.name \o TitleVersion
  /\ Has(loadPreviousStatuses(before), app.appId)
  /\ Get(StoredEntry(before, app.appId), "state") = Get(currentStatus, "state")

\* ------------------------------------------------------------ composition, every state
\* One iteration of the loop for every lifecycle state the lookups name and one
\* they do not, with and without a stored record and a build linkage.
KnownStates ==
  {"ACCEPTED", "DEVELOPER_REJECTED", "IN_REVIEW", "INVALID_BINARY", "METADATA_REJECTED",
   "PENDING_APPLE_RELEASE", "PENDING_DEVELOPER_RELEASE", "PREPARE_FOR_SUBMISSION",
   "PROCESSING_FOR_DISTRIBUTION", "READY_FOR_DISTRIBUTION", "READY_FOR_REVIEW", "REJECTED",
   "REPLACED_WITH_NEW_VERSION", "WAITING_FOR_EXPORT_COMPLIANCE", "WAITING_FOR_REVIEW"}
AllStates == KnownStates \cup {"NOT_A_KNOWN_STATE"}
KnownReleaseTypes == {"MANUAL", "AFTER_APPROVAL", "SCHEDULED"}
AllReleaseTypes == KnownReleaseTypes \cup {"PHASED"}
AllResponses ==
  { [data |-> << VersionItem("IOS", st, d, v, rt, b) >>, included |-> inc] :
      st \in AllStates, d \in {Undefined, "2024-05-01T09:00:00Z"}, v \in Versions,
      rt \in AllReleaseTypes, b \in {Undefined, "b1"}, inc \in Included }
ComposeFiles ==
  { JSONstringify(EmptyObject), JSONstringify(<< <<"1001", EarlierStatus>> >>) }

ComposeInit ==
  /\ file \in ComposeFiles
  /\ before = file
  /\ pass = 1
  /\ idx = 1
  /\ pc = "fetch"
  /\ currentStatus = Missing
  /\ buildNumber = Undefined
  /\ previousStatus = Missing
  /\ changed = FALSE
  /\ payload = NoPayload
  /\ outcome = "none"
  /\ hist = [p \in 1..NumPasses |-> [i \in DOMAIN Apps |-> NoHist]]
  /\ posts = << >>
  /\ writes = << >>
  /\ mainError = "none"
  /\ instances = << >>
  /\ saved = EmptyObject

FetchAll ==
  /\ pc = "fetch"
  /\ \E response \in AllResponses : HandleResponse(response)
  /\ UNCHANGED <<before, pass, idx>>
  /\ UNCHANGED concVars

ComposeNext == FetchAll \/ Post

ComposeSpec == ComposeInit /\ [][ComposeNext]_vars

\* A payload has been composed in this iteration.
Composed == Fetched /\ changed
FieldNames == [i \in DOMAIN payload.fields |-> payload.fields[i].name]
FieldValue(name) ==
  payload.fields[CHOOSE i \in DOMAIN payload.fields : payload.fields[i].name = name].value

\* C11: the current-version field is "{versionString} ({buildNumber})" exactly in
\* the four build-relevant states, the build number being blank when the response
\* has no build linkage, and the plain versionString in every other state.
C11_VersionFieldBlankWithoutBuild ==
  Composed =>
    FieldValue("current version") =
      IF Get(currentStatus, "state") \in
           {"READY_FOR_DISTRIBUTION", "PENDING_DEVELOPER_RELEASE", "WAITING_FOR_REVIEW",
            "IN_REVIEW"}
      THEN Get(currentStatus, "versionString") \o " ("
             \o (IF buildNumber = Undefined THEN "" ELSE buildNumber) \o ")"
      ELSE Get(currentStatus, "versionString")

\* C12: every composed payload lists current state, current version, release
\* type, then the previous version (the stored record's) and the submission
\* time when a prior record exists and its version differs from the fetched one,
\* else the submission time alone.
C12_FieldOrder ==
  Composed =>
    LET prev == StoredEntry(before, app.appId)
        had == Has(loadPreviousStatuses(before), app.appId)
        vDiff == Get(prev, "versionString") # Get(currentStatus, "versionString")
    IN  /\ FieldNames =
             IF had /\ vDiff
             THEN <<"current state", "current version", "release type",
                    "previous version", "submitted at">>
             ELSE <<"current state", "current version", "release type", "submitted at">>
        /\ (had /\ vDiff) => FieldValue("previous version") = Get(prev, "versionString")
        /\ (\E i \in DOMAIN payload.fields : payload.fields[i].name = "previous version")
             <=> (had /\ vDiff)
\* C12 witness: a payload with a previous-version field is about to be posted.
C12_Witness ==
  /\ pc = "post" /\ Len(payload.fields) = 5
  /\ payload.fields[4].name = "previous version"
  /\ payload.fields[4].value # Get(currentStatus, "versionString")

\* C13: for each of the fifteen named lifecycle states and for an unnamed one the
\* icon, label and colour are defined and not empty, the unnamed one getting the
\* default icon, label and colour; every release type has a label, an unnamed
\* one echoing the raw value; the payload carries these values.
C13_LookupsAreTotal ==
  Composed =>
    LET st == Get(currentStatus, "state")
        rt == Get(currentStatus, "releaseType")
    IN  /\ getStateEmoji(st) \notin {"", Undefined}
        /\ getStateMessage(st) \notin {"", Undefined}
        /\ getStateColor(st) \in {3581519, 14431557, 16761095, 35020, 7291585, 9807270}
        /\ getReleaseTypeMessage(rt) \notin {"", Undefined}
        /\ st \notin KnownStates =>
             /\ getStateEmoji(st) = "question-mark"
             /\ getStateMessage(st) = "unknown state"
             /\ getStateColor(st) = 9807270
        /\ st \in KnownStates =>
             /\ getStateEmoji(st) # "question-mark"
             /\ getStateMessage(st) # "unknown state"
             /\ getStateColor(st) # 9807270
        /\ rt \notin KnownReleaseTypes => getReleaseTypeMessage(rt) = rt \o " release"
        /\ FieldValue("current state") = getStateEmoji(st) \o " " \o getStateMessage(st)
        /\ FieldValue("release type") = getReleaseTypeMessage(rt)
        /\ payload.color = getStateColor(st)
\* C13 witness: a payload composed for a state and a release type no switch names.
C13_Witness ==
  /\ pc = "post"
  /\ Get(currentStatus, "state") \notin KnownStates
  /\ Get(currentStatus, "releaseType") \notin KnownReleaseTypes
  /\ FieldValue("current state") = "question-mark unknown state"

\* ------------------------------------------------------------ overlapping runs
\* Runs of the job that share one status.json. Inside a run the file is read by
\* fs.readFileSync and written by fs.writeFileSync, two separate system calls:
\* what another run does between them is what this specification adds. Each run
\* makes the two passes over the applications; token and fetch failures are one
\* step, since neither touches the file.
NumInstances == 2
Instances == 1..NumInstances
\* What a fetch may return for an application in these runs.
ConcStatuses ==
  { EarlierStatus, AppStatus("READY_FOR_DISTRIBUTION", Undefined, "1.1", "MANUAL") }
Idle(at) == [pc |-> at, pass |-> 1, idx |-> 1, cur |-> Missing, loaded |-> EmptyObject]
\* The variables of the single run, which overlapping runs leave alone.
seqVars == <<before, pass, idx, pc, currentStatus, buildNumber, previousStatus, changed,
             payload, outcome, hist, posts, writes, mainError>>

\* One run or two have started on the same file.
ConcInit ==
  /\ file \in ComposeFiles
  /\ before = file
  /\ pass = 1
  /\ idx = 1
  /\ pc = "done"
  /\ currentStatus = Missing
  /\ buildNumber = Undefined
  /\ previousStatus = Missing
  /\ changed = FALSE
  /\ payload = NoPayload
  /\ outcome = "none"
  /\ hist = [p \in 1..NumPasses |-> [i \in DOMAIN Apps |-> NoHist]]
  /\ posts = << >>
  /\ writes = << >>
  /\ mainError = "none"
  /\ \E started \in Instances :
       instances = [r \in Instances |-> IF r <= started THEN Idle("fetch") ELSE Idle("off")]
  /\ saved = EmptyObject

\* Run r leaves its iteration: next application, next pass, or the end of main().
Advance(r) ==
  LET me == instances[r]
  IN  IF me.idx < Len(Apps)
      THEN [Idle("fetch") EXCEPT !.pass = me.pass, !.idx = me.idx + 1]
      ELSE IF me.pass < NumPasses
      THEN [Idle("fetch") EXCEPT !.pass = me.pass + 1]
      ELSE Idle("done")

\* generateToken throws, the GET rejects or returns nothing usable: catch block
ConcFetchFails(r) ==
  /\ instances[r].pc = "fetch"
  /\ instances' = [instances EXCEPT ![r] = Advance(r)]
  /\ UNCHANGED <<file, saved>>
  /\ UNCHANGED seqVars

\* the GET resolves and hasStatusChanged reads the file
ConcFetchResponds(r) ==
  /\ instances[r].pc = "fetch"
  /\ \E cur \in ConcStatuses :
       instances' = [instances EXCEPT ![r].cur = cur,
                       ![r].pc = IF hasStatusChanged(file, Apps[instances[r].idx].appId, cur)
                                 THEN "post" ELSE "save"]
  /\ UNCHANGED <<file, saved>>
  /\ UNCHANGED seqVars

\* await axios.post resolves or rejects
ConcPost(r) ==
  /\ instances[r].pc = "post"
  /\ \E ok \in BOOLEAN :
       instances' = [instances EXCEPT ![r] =
                       IF ok THEN [instances[r] EXCEPT !.pc = "save"] ELSE Advance(r)]
  /\ UNCHANGED <<file, saved>>
  /\ UNCHANGED seqVars

\* savePreviousStatus: const currentStatuses = this.loadPreviousStatuses()
ConcLoad(r) ==
  /\ instances[r].pc = "save"
  /\ instances' = [instances EXCEPT ![r].loaded = loadPreviousStatuses(file),
                                    ![r].pc = "write"]
  /\ UNCHANGED <<file, saved>>
  /\ UNCHANGED seqVars

\* mutant: only the entry being saved is written
writeStatuses_OnlyEntry(currentStatuses, appId, status) ==
  JSONstringify(<< <<appId, status>> >>)
\* currentStatuses[appId] = status; fs.writeFileSync(path, JSON.stringify(currentStatuses))
writeStatuses(currentStatuses, appId, status) ==
  JSONstringify(Set(currentStatuses, appId, status))

\* savePreviousStatus: the assignment and fs.writeFileSync
ConcWrite(r) ==
  /\ instances[r].pc = "write"
  /\ file' = writeStatuses(instances[r].loaded, Apps[instances[r].idx].appId,
                           instances[r].cur)
  /\ saved' = Set(saved, Apps[instances[r].idx].appId, instances[r].cur)
  /\ instances' = [instances EXCEPT ![r] = Advance(r)]
  /\ UNCHANGED seqVars

ConcNext ==
  \E r \in Instances :
    \/ ConcFetchFails(r)
    \/ ConcFetchResponds(r)
    \/ ConcPost(r)
    \/ ConcLoad(r)
    \/ ConcWrite(r)

ConcSpec == ConcInit /\ [][ConcNext]_vars

\* An entry some run has written is no longer what the file holds.
Lost(appId) ==
  /\ Has(saved, appId)
  /\ StoredEntry(file, appId) # RoundTrip(GetObj(saved, appId))
SingleRun == \A r \in Instances : r > 1 => instances[r].pc = "off"

\* C14: with one run of the job, every entry a save has written stays in the
\* file as written until the same application is saved again; with two runs on
\* the same file, a write based on a stale read removes an entry the other run
\* saved (the witness).
C14_SingleRunLosesNothing ==
  SingleRun => \A appId \in AppIds : ~Lost(appId)
\* C14 witness: two runs, and an entry one of them saved is absent from the file.
C14_Witness ==
  /\ ~SingleRun
  /\ \E appId \in AppIds : Has(saved, appId) /\ ~Has(loadPreviousStatuses(file), appId)

\* C15: in every iteration the store is written only after the fetched record has
\* been classified and, when it was classified as changed, after the POST was
\* issued: while an iteration waits for its token, its GET or its POST the file
\* is as the iteration found it, and an iteration that wrote ended unchanged with
\* no POST or delivered with one.
C15_PersistComesLast ==
  /\ pc \in {"token", "fetch", "post"} => (file = before /\ WritesOf(pass, idx) = 0)
  /\ pc \in {"token", "fetch"} => (~Fetched /\ PostsOf(pass, idx) = 0)
  /\ pc = "post" => (Fetched /\ changed /\ PostsOf(pass, idx) = 0)
  /\ \A p \in 1..NumPasses : \A i \in DOMAIN Apps :
       /\ WritesOf(p, i) <= 1
       /\ PostsOf(p, i) <= 1
       /\ WritesOf(p, i) = 1 =>
            \/ hist[p][i].result = "unchanged" /\ PostsOf(p, i) = 0
            \/ hist[p][i].result = "delivered" /\ PostsOf(p, i) = 1
\* C15 witness: an iteration that fetched, detected a change, posted and then wrote.
C15_Witness ==
  /\ pc = "iterEnd" /\ outcome = "delivered" /\ changed
  /\ PostsOf(pass, idx) = 1 /\ WritesOf(pass, idx) = 1
  /\ file # before

\* C16: main() makes two passes and no more; an application whose POST failed in
\* the first pass is fetched again in the second, and when the fetch returns the
\* same state and version the change is detected again, one POST is issued, and
\* the record is written if that POST succeeds; each pass posts at most once.
C16_SecondPassRetriesOnce ==
  /\ pass \in 1..NumPasses
  /\ NumPasses = 2
  /\ \A n \in DOMAIN posts : posts[n].pass \in 1..NumPasses
  /\ pc = "done" =>
       /\ pass = NumPasses
       /\ \A p \in 1..NumPasses : \A i \in DOMAIN Apps : hist[p][i].result # "none"
  /\ \A i \in DOMAIN Apps :
       hist[1][i].result = "deliveryError" =>
         /\ PostsOf(1, i) = 1 /\ WritesOf(1, i) = 0
         /\ PostsOf(2, i) <= 1
         /\ ( /\ hist[2][i].result # "none"
              /\ hist[2][i].state = hist[1][i].state
              /\ hist[2][i].versionString = hist[1][i].versionString )
            => /\ hist[2][i].result \in {"delivered", "deliveryError"}
               /\ PostsOf(2, i) = 1
               /\ WritesOf(2, i) = IF hist[2][i].result = "delivered" THEN 1 ELSE 0
\* C16 witness: the run has ended; the first application's POST failed in the
\* first pass and was delivered and saved in the second.
C16_Witness ==
  /\ pc = "done"
  /\ hist[1][1].result = "deliveryError"
  /\ hist[2][1].result = "delivered"
  /\ hist[2][1].state = hist[1][1].state
  /\ PostsOf(2, 1) = 1 /\ WritesOf(2, 1) = 1

\* Log entry a belongs to position (p, i) of the run or to an earlier one.
NotAfter(a, p, i) == a.pass < p \/ (a.pass = p /\ a.idx <= i)
\* C17: within a pass the applications are handled one after the other in the
\* order of the configuration: every POST and every write logged so far belongs
\* to the current position or an earlier one and the logs are in position order,
\* an iteration has ended exactly for the positions already passed, and the
\* iteration at position i posts for and writes the entry of the i-th application.
C17_StrictlySequential ==
  /\ \A m, n \in DOMAIN posts : m < n => NotAfter(posts[m], posts[n].pass, posts[n].idx)
  /\ \A m, n \in DOMAIN writes : m < n => NotAfter(writes[m], writes[n].pass, writes[n].idx)
  /\ \A n \in DOMAIN posts : NotAfter(posts[n], pass, idx)
  /\ \A n \in DOMAIN writes : NotAfter(writes[n], pass, idx)
  /\ \A p \in 1..NumPasses : \A i \in DOMAIN Apps :
       (hist[p][i].result # "none") <=> IterationOver(p, i)
  /\ pc = "post" =>
       /\ payload.url = "https://appstoreconnect.apple.com/apps/" \o Apps[idx].appId
                          \o "/appstore"
       /\ payload.author.name = Apps[idx].name
  /\ (pc = "iterEnd" /\ WritesOf(pass, idx) = 1) =>
       StoredEntry(file, Apps[idx].appId) = RoundTrip(currentStatus)
\* C17 witness: the second application's iteration has ended with a POST and a
\* write, after the first application's POST and write.
C17_Witness ==
  /\ pass = 1 /\ idx = 2 /\ pc = "iterEnd" /\ outcome = "delivered"
  /\ Len(posts) = 2 /\ posts[1].idx = 1 /\ posts[2].idx = 2
  /\ Len(writes) = 2 /\ writes[1].idx = 1 /\ writes[2].idx = 2

\* ------------------------------------------------------------ fairness
\* Every awaited call settles: the token, the GET and the POST each resolve or
\* reject, and the synchronous code between them runs to its next await. A step
\* that can be taken is therefore taken.
FairSpec == Init /\ [][Next]_vars /\ WF_vars(Next)

Visited(p) == \A i \in DOMAIN Apps : hist[p][i].result # "none"
\* C18: when every awaited call settles, the first pass ends and then the second
\* pass ends, whatever failed on the way; a pass that has ended has an outcome
\* for every application; the loop position only moves to the next application
\* or to the first application of the next pass, and an outcome once recorded
\* is not recorded again, so each application is visited once per pass.
C18_EveryPassTerminates ==
  /\ <>(pass = NumPasses)
  /\ <>(pc = "done")
  /\ [](pass = NumPasses => Visited(1))
  /\ [](pc = "done" => \A p \in 1..NumPasses : Visited(p))
  /\ [][ /\ (pass' # pass \/ idx' # idx) =>
              \/ pass' = pass /\ idx' = idx + 1
              \/ pass' = pass + 1 /\ idx = Len(Apps) /\ idx' = 1
         /\ \A p \in 1..NumPasses : \A i \in DOMAIN Apps :
              hist[p][i].result # "none" => hist'[p][i] = hist[p][i] ]_vars
\* C18 witness: the run has ended after a failure in each pass and application.
C18_Witness ==
  /\ pc = "done"
  /\ hist[1][1].result = "error"
  /\ hist[1][2].result = "deliveryError"
  /\ hist[2][1].result = "deliveryError"
  /\ hist[2][2].result = "error"

PersistedFields == {"state", "createdDate", "versionString", "releaseType"}
Succeeded(p, i) == hist[p][i].result \in {"unchanged", "delivered"}
\* C19: in a single run, when an iteration ends unchanged or delivered, the
\* application's entry read back from the store has the fetched state, creation
\* date, version and release type; no entry of the store has any other key, so
\* no build number; and each application's entry has the state and version of
\* its latest iteration that ended unchanged or delivered.
C19_StoreHoldsLastSuccess ==
  /\ (pc = "iterEnd" /\ outcome \in {"unchanged", "delivered"}) =>
       /\ Has(loadPreviousStatuses(file), app.appId)
       /\ \A k \in PersistedFields :
            Get(StoredEntry(file, app.appId), k) = Get(currentStatus, k)
  /\ \A id \in Keys(loadPreviousStatuses(file)) :
       Keys(StoredEntry(file, id)) \subseteq PersistedFields
  /\ \A i \in DOMAIN Apps :
       LET done == { p \in 1..NumPasses : Succeeded(p, i) }
       IN  done # {} =>
             LET last == CHOOSE p \in done : \A q \in done : q <= p
                 entry == StoredEntry(file, Apps[i].appId)
             IN  /\ Get(entry, "state") = hist[last][i].state
                 /\ Get(entry, "versionString") = hist[last][i].versionString
\* C19 witness: a delivered iteration, then an iteration of the same application
\* that fetched another state and failed at delivery: the store keeps the first.
C19_Witness ==
  /\ pass = 2 /\ idx = 1 /\ pc = "iterEnd" /\ outcome = "deliveryError"
  /\ hist[1][1].result = "delivered"
  /\ hist[1][1].state # Get(currentStatus, "state")
  /\ Get(StoredEntry(file, app.appId), "state") = hist[1][1].state

====
